---------------------------- MODULE Spec2Model ----------------------------
(***************************************************************************)
(* Spritz stream cipher and hash (src/spritz.go).                          *)
(*                                                                         *)
(* A Permutation State is a record [n, s, a, i, j, k, w, z]; s is the      *)
(* array, kept as a sequence of length n: the element at Go index x is    *)
(* s[x + 1], read by At(s, x).  The primitives of the source are          *)
(* operators from state to state, written as the code computes them.      *)
(* A loop `for idx := lo; idx < hi; idx++` is an operator over the range  *)
(* lo..hi-1 that runs the first half of the range and then the second:    *)
(* the iterations run in the order of the code, one after the other.      *)
(* The state between the two halves is named and tested (n > 0, which     *)
(* every state satisfies) so that TLC computes it before going on.        *)
(***************************************************************************)
EXTENDS Integers, Sequences, FiniteSets, TLC

\* the state size: initialize() ignores its argument and always builds 256
N == 256

(***************************************************************************)
(* Go integer arithmetic: / and % truncate toward zero.                    *)
(***************************************************************************)
GoDiv(x, y) == IF x >= 0 THEN x \div y ELSE -((-x) \div y)

GoMod(x, y) == x - y * GoDiv(x, y)

\* byte(v) of an int: the low eight bits
ToByte(v) == v % 256

RECURSIVE XorBits(_, _, _)
XorBits(x, y, bits) ==
    IF bits = 0 THEN 0
    ELSE (((x % 2) + (y % 2)) % 2) + (2 * XorBits(x \div 2, y \div 2, bits - 1))

XorAsAdd(x, y) == (x + y) % 256

\* v ^ b on bytes
Xor(x, y) == XorBits(x, y, 8)

\* s[x] of the Go slice
At(s, x) == s[x + 1]

\* the swap without the temporary: s[x] = s[y]; s[y] = s[x]
SwapNoTemp(s, x, y) == [s EXCEPT ![x + 1] = s[y + 1]]

\* t := s[x]; s[x] = s[y]; s[y] = t
Swap(s, x, y) == [s EXCEPT ![x + 1] = s[y + 1], ![y + 1] = s[x + 1]]

\* for i := range s.s { s.s[i] = i }
RECURSIVE identityRange(_, _)
identityRange(lo, hi) ==
    IF hi <= lo THEN <<>>
    ELSE IF hi = lo + 1 THEN <<lo>>
    ELSE LET mid == (lo + hi) \div 2
         IN  identityRange(lo, mid) \o identityRange(mid, hi)

(***************************************************************************)
(* state.initialize                                                        *)
(***************************************************************************)
initialize ==
    [n |-> N, s |-> identityRange(0, N),
     a |-> 0, i |-> 0, j |-> 0, k |-> 0, w |-> 1, z |-> 0]

(***************************************************************************)
(* state.update                                                            *)
(***************************************************************************)
update(st) ==
    LET i1 == (st.i + st.w) % st.n
        y  == (st.j + At(st.s, i1)) % st.n
        j1 == (st.k + At(st.s, y)) % st.n
        k1 == (i1 + st.k + At(st.s, j1)) % st.n
    IN  [st EXCEPT !.i = i1, !.j = j1, !.k = k1, !.s = Swap(st.s, i1, j1)]

\* state.output: the new state (z set) ; the returned value is its z
output(st) ==
    LET y1 == (st.z + st.k) % st.n
        x1 == (st.i + At(st.s, y1)) % st.n
        y2 == (st.j + At(st.s, x1)) % st.n
    IN  [st EXCEPT !.z = At(st.s, y2)]

(***************************************************************************)
(* state.crush: the loop over idx = 0 .. n/2 - 1                           *)
(***************************************************************************)
\* one iteration of the loop of crush
crushAt(s, n, idx) ==
    LET y  == (n - 1) - idx
        x1 == At(s, idx)
        x2 == At(s, y)
    IN  IF x1 > x2 THEN [s EXCEPT ![idx + 1] = x2, ![y + 1] = x1]
                   ELSE [s EXCEPT ![idx + 1] = x1, ![y + 1] = x2]

RECURSIVE crushRange(_, _, _, _)
crushRange(s, n, lo, hi) ==
    IF hi <= lo THEN s
    ELSE IF hi = lo + 1 THEN crushAt(s, n, lo)
    ELSE LET mid == (lo + hi) \div 2
             h   == crushRange(s, n, lo, mid)
         IN  IF Len(h) = n THEN crushRange(h, n, mid, hi) ELSE h

crush(st) == [st EXCEPT !.s = crushRange(st.s, st.n, 0, st.n \div 2)]

(***************************************************************************)
(* state.whip: r = 2n updates, then w = (w + 2) % n                        *)
(***************************************************************************)
RECURSIVE updateTimes(_, _)
updateTimes(st, r) ==
    IF r = 0 THEN st
    ELSE IF r = 1 THEN update(st)
    ELSE LET h == updateTimes(st, r \div 2)
         IN  IF h.n > 0 THEN updateTimes(h, r - (r \div 2)) ELSE h

whip(st) ==
    LET t == updateTimes(st, st.n * 2)
    IN  [t EXCEPT !.w = (t.w + 2) % t.n]

shuffle(st) == [whip(crush(whip(crush(whip(st))))) EXCEPT !.a = 0]

absorbStop(st) ==
    LET t == IF st.a = st.n \div 2 THEN shuffle(st) ELSE st
    IN  [t EXCEPT !.a = (t.a + 1) % t.n]

\* y := (s.n/2 + x) % s.n
nibbleY(n, x) == GoMod(n \div 2 + x, n)

absorbNibble(st, x) ==
    LET t == IF st.a = st.n \div 2 THEN shuffle(st) ELSE st
        y == nibbleY(t.n, x)
    IN  [t EXCEPT !.s = Swap(t.s, t.a, y), !.a = (t.a + 1) % t.n]

absorbValue(st, b) ==
    LET d == st.n \div 16
    IN  absorbNibble(absorbNibble(st, GoMod(b, d)), GoDiv(b, d))

\* the loop of absorb over msg[lo .. hi-1] (Go indices)
RECURSIVE absorbRange(_, _, _, _)
absorbRange(st, msg, lo, hi) ==
    IF hi <= lo THEN st
    ELSE IF hi = lo + 1 THEN absorbValue(st, msg[lo + 1])
    ELSE LET mid == (lo + hi) \div 2
             h   == absorbRange(st, msg, lo, mid)
         IN  IF h.n > 0 THEN absorbRange(h, msg, mid, hi) ELSE h

absorb(st, msg) == absorbRange(st, msg, 0, Len(msg))

\* state.drip: the new state; the returned value is its z
drip(st) == output(update(IF st.a > 0 THEN shuffle(st) ELSE st))

\* the loop of squeeze, count iterations of out[i] = s.drip():
\* [st: the state afterwards, out: the values in order]
RECURSIVE dripTimes(_, _)
dripTimes(st, count) ==
    IF count <= 0 THEN [st |-> st, out |-> <<>>]
    ELSE IF count = 1 THEN LET t == drip(st)
                           IN  [st |-> t, out |-> <<t.z>>]
    ELSE LET h == dripTimes(st, count \div 2)
         IN  IF h.st.n > 0
             THEN LET g == dripTimes(h.st, count - (count \div 2))
                  IN  [st |-> g.st, out |-> h.out \o g.out]
             ELSE h

\* state.squeeze into a slice of length count: [st, out]
squeeze(st, count) == dripTimes(IF st.a > 0 THEN shuffle(st) ELSE st, count)

keySetupNoShuffle(st, key) == absorb(st, key)

keySetup(st, key) ==
    LET t == absorb(st, key)
    IN  IF t.a > 0 THEN shuffle(t) ELSE t

(***************************************************************************)
(* Bounds of the model.                                                    *)
(***************************************************************************)
\* Write calls since construction or the last Reset
MaxWrites == 2

\* Sum calls since construction or the last Reset
MaxSums == 2

\* length of the long chunk: 2 * LongLen nibbles bring a to n/2
LongLen == 64

\* bytes a stream transforms during its life
MaxStream == 3

\* the sizes handed to NewHash
Sizes == {-1, 0, 32}

LongChunk == [x \in 1..LongLen |-> (37 * x + 11) % 256]

\* the byte slices handed to Write
Chunks == {<<200>>, LongChunk}

\* the slices b handed to Sum
Prefixes == {<<>>, <<7, 9>>}

\* the keys handed to NewStream
Keys == {<<>>, <<171>>, <<1, 2, 3>>, LongChunk}

\* the sizes of the first hash of a pair, and how far the second's is from it
PairSizes == {0, 3}

Gaps == {256, 4096}

\* the slices src handed to XORKeyStream
Srcs == {<<>>, <<0>>, <<90>>, <<0, 255>>}

(***************************************************************************)
(* digest.Sum.  s := *d.s copies the registers; the slice header s.s is    *)
(* copied too, so the local copy and the live state share one array:       *)
(* every write to s.s[...] on the copy is a write to the live array.       *)
(* sumCopy is the local copy after absorbStop and absorb([]int{size}).     *)
(***************************************************************************)
\* the size absorbed as two bytes, low then high
sumCopyWide(st, sz) == absorb(absorbStop(st), <<GoMod(sz, 256), GoDiv(sz, 256)>>)

sumCopy(st, sz) == absorb(absorbStop(st), <<sz>>)

\* h[i] = byte(v)
toBytes(vals) == [x \in 1..Len(vals) |-> ToByte(vals[x])]

\* Sum returning h instead of append(b, h...)
digestSumDropsPrefix(st, sz, b) ==
    LET c == sumCopy(st, sz)
    IN  IF sz < 0
        THEN [live |-> [st EXCEPT !.s = c.s], ret |-> <<>>, panic |-> TRUE]
        ELSE LET r == squeeze(c, sz)
             IN  [live  |-> [st EXCEPT !.s = r.st.s],
                  ret   |-> toBytes(r.out),
                  panic |-> FALSE]

\* [live: the state d.s points to afterwards, ret: the slice returned,
\*  panic: make([]int, d.size) panicked (size < 0)]
digestSum(st, sz, b) ==
    LET c == sumCopy(st, sz)
    IN  IF sz < 0
        THEN [live |-> [st EXCEPT !.s = c.s], ret |-> <<>>, panic |-> TRUE]
        ELSE LET r == squeeze(c, sz)
             IN  [live  |-> [st EXCEPT !.s = r.st.s],
                  ret   |-> b \o toBytes(r.out),
                  panic |-> FALSE]

\* Write ending as keySetup ends: a shuffle when a > 0
digestWriteFlush(st, p) == keySetup(st, p)

\* digest.Write: the state afterwards (it returns len(p), nil)
digestWrite(st, p) == absorb(st, p)

\* Reset of the registers alone, the array kept
digestResetRegisters(st) == [initialize EXCEPT !.s = st.s]

\* digest.Reset: the state afterwards
digestReset(st) == initialize

(***************************************************************************)
(* stream.XORKeyStream(dst, src).  In dst[i] = v ^ byte(s.s.drip()) the    *)
(* call is made before the store, so with i out of dst's range the state   *)
(* has advanced when the index panics.                                     *)
(***************************************************************************)
xorAt(r, src, idx) ==
    IF r.panic THEN r
    ELSE LET t == drip(r.st)
         IN  IF idx >= Len(r.dst)
             THEN [r EXCEPT !.st = t, !.panic = TRUE]
             ELSE [r EXCEPT !.st = t,
                            !.dst[idx + 1] = Xor(src[idx + 1], ToByte(t.z))]

RECURSIVE xorRange(_, _, _, _)
xorRange(r, src, lo, hi) ==
    IF hi <= lo THEN r
    ELSE IF hi = lo + 1 THEN xorAt(r, src, lo)
    ELSE LET mid == (lo + hi) \div 2
             h   == xorRange(r, src, lo, mid)
         IN  IF h.st.n > 0 THEN xorRange(h, src, mid, hi) ELSE h

\* XORKeyStream on a copy of the state: the live state does not advance
streamXORKeyStreamOnCopy(st, dst, src) ==
    [xorRange([st |-> st, dst |-> dst, panic |-> FALSE], src, 0, Len(src))
        EXCEPT !.st = st]

\* [st: the state afterwards, dst: the contents of dst, panic]
streamXORKeyStream(st, dst, src) ==
    xorRange([st |-> st, dst |-> dst, panic |-> FALSE], src, 0, Len(src))

\* the state a stream from NewStream(key) holds
streamNew(key) == keySetup(initialize, key)

\* make([]byte, len)
zeros(len) == [x \in 1..len |-> 0]

(***************************************************************************)
(* The program: a hash from NewHash(size) or a stream from NewStream(key), *)
(* and the calls made on it; or (mode "pair") two hashes, of sizes size    *)
(* and sizeB, given the same calls.                                        *)
(*   mode     "hash", "stream" or "pair"                                   *)
(*   size, hs the digest's size and the state d.s points to                *)
(*   out, prefix   what the last Sum returned, and the b it was given      *)
(*   sizeB, hsB, outB   the same for the second hash of a pair             *)
(*   key, cs  the stream's key and the state s.s points to                 *)
(*   src, dst the src of the last XORKeyStream and the contents of its dst *)
(*   lastOp   the last call made; panicked: it ended in a panic            *)
(* History variables:                                                      *)
(*   hist     the names of the calls since construction or the last Reset  *)
(*   msg      the bytes written since construction or the last Reset       *)
(*   recycled a Reset came after at least one Write and one Sum            *)
(*   srcAll, dstAll  all the bytes given to XORKeyStream, and all it wrote *)
(* Mode "twin" has a second stream made from the same key: csB, srcAllB,   *)
(* dstAllB.  Mode "step" runs one program call by call; its variables are  *)
(* described at StepSpec.                                                  *)
(***************************************************************************)
VARIABLES mode, size, hs, out, prefix, sizeB, hsB, outB, key, cs, src, dst,
          lastOp, panicked, hist, msg, recycled, srcAll, dstAll,
          csB, srcAllB, dstAllB,
          ps, stack, step, api, live, buf, outs,
          nupd, slog, sh0, updSinceOut, nabs, nabsLive, shufSinceAbs, sq

\* the second stream of a twin: its state, what it was given and what it wrote
twinVars == <<csB, srcAllB, dstAllB>>

\* the call-by-call run of one program (see StepSpec)
stepVars == <<ps, stack, step, api, live, buf, outs,
              nupd, slog, sh0, updSinceOut, nabs, nabsLive, shufSinceAbs, sq>>

vars == <<mode, size, hs, out, prefix, sizeB, hsB, outB, key, cs, src, dst,
          lastOp, panicked, hist, msg, recycled, srcAll, dstAll,
          twinVars, stepVars>>

hashVars == <<size, hs, out, prefix, hist, msg, recycled>>

pairVars == <<sizeB, hsB, outB>>

streamVars == <<key, cs, src, dst, srcAll, dstAll>>

\* the Write and the Sum calls since construction or the last Reset
nwrite == Cardinality({x \in DOMAIN hist : hist[x] = "Write"})

nsum == Cardinality({x \in DOMAIN hist : hist[x] = "Sum"})

NoHash ==
    /\ size = 0 /\ hs = initialize /\ out = <<>> /\ prefix = <<>>
    /\ hist = <<>> /\ msg = <<>> /\ recycled = FALSE

NoPair == sizeB = 0 /\ hsB = initialize /\ outB = <<>>

NoStream ==
    /\ key = <<>> /\ cs = initialize /\ src = <<>> /\ dst = <<>>
    /\ srcAll = <<>> /\ dstAll = <<>>

NoTwin == csB = initialize /\ srcAllB = <<>> /\ dstAllB = <<>>

NoStep ==
    /\ ps = initialize /\ stack = <<>> /\ step = "" /\ api = ""
    /\ live = initialize /\ buf = <<>> /\ outs = <<>>
    /\ nupd = 0 /\ slog = <<>> /\ sh0 = initialize
    /\ updSinceOut = 0 /\ nabs = 0 /\ nabsLive = 0 /\ shufSinceAbs = 0
    /\ sq = [a0 |-> 0, w0 |-> 1, shuffles |-> 0, drips |-> 0]

\* NewHash(size): Reset on a new state; no size is refused
NewHash ==
    /\ mode = "hash"
    /\ size \in Sizes
    /\ hs = initialize
    /\ out = <<>> /\ prefix = <<>>
    /\ hist = <<>> /\ msg = <<>> /\ recycled = FALSE
    /\ lastOp = "NewHash" /\ panicked = FALSE
    /\ NoPair /\ NoStream /\ NoTwin /\ NoStep

NewStream ==
    /\ mode = "stream"
    /\ key \in Keys
    /\ cs = streamNew(key)
    /\ src = <<>> /\ dst = <<>> /\ srcAll = <<>> /\ dstAll = <<>>
    /\ lastOp = "NewStream" /\ panicked = FALSE
    /\ NoHash /\ NoPair /\ NoTwin /\ NoStep

Init == NewHash \/ NewStream

Write ==
    /\ mode = "hash" /\ ~panicked /\ nwrite < MaxWrites
    /\ \E p \in Chunks :
         /\ hs' = digestWrite(hs, p)
         /\ msg' = msg \o p
    /\ hist' = Append(hist, "Write")
    /\ out' = <<>> /\ prefix' = <<>>
    /\ lastOp' = "Write"
    /\ UNCHANGED <<mode, size, recycled, panicked, pairVars, streamVars,
                 twinVars, stepVars>>

Sum ==
    /\ mode = "hash" /\ ~panicked /\ nsum < MaxSums
    /\ \E b \in Prefixes :
         LET r == digestSum(hs, size, b)
         IN  /\ hs' = r.live
             /\ out' = r.ret
             /\ panicked' = r.panic
             /\ prefix' = b
    /\ hist' = Append(hist, "Sum")
    /\ lastOp' = "Sum"
    /\ UNCHANGED <<mode, size, msg, recycled, pairVars, streamVars,
                 twinVars, stepVars>>

Reset ==
    /\ mode = "hash" /\ ~panicked
    /\ lastOp # "Reset" /\ ~recycled
    /\ hs' = digestReset(hs)
    /\ hist' = <<>> /\ msg' = <<>>
    /\ recycled' = (nwrite > 0 /\ nsum > 0)
    /\ out' = <<>> /\ prefix' = <<>>
    /\ lastOp' = "Reset"
    /\ UNCHANGED <<mode, size, panicked, pairVars, streamVars,
                 twinVars, stepVars>>

XORKeyStream ==
    /\ mode = "stream" /\ ~panicked
    /\ \E v \in Srcs : \E room \in {Len(v) - 1, Len(v), Len(v) + 1} :
         /\ room >= 0
         /\ Len(srcAll) + Len(v) <= MaxStream
         /\ LET r == streamXORKeyStream(cs, zeros(room), v)
            IN  /\ cs' = r.st
                /\ src' = v
                /\ dst' = r.dst
                /\ panicked' = r.panic
                /\ srcAll' = IF r.panic THEN srcAll ELSE srcAll \o v
                /\ dstAll' = IF r.panic THEN dstAll
                             ELSE dstAll \o SubSeq(r.dst, 1, Len(v))
    /\ lastOp' = "XORKeyStream"
    /\ UNCHANGED <<mode, key, hashVars, pairVars,
                 twinVars, stepVars>>

Next == Write \/ Sum \/ Reset \/ XORKeyStream

Spec == Init /\ [][Next]_vars

(***************************************************************************)
(* Two hashes, NewHash(size) and NewHash(sizeB), given the same Write      *)
(* calls and Sum(nil) at the same points.                                  *)
(***************************************************************************)
NewPair ==
    /\ mode = "pair"
    /\ size \in PairSizes
    /\ \E g \in Gaps : sizeB = size + g
    /\ hs = initialize /\ hsB = initialize
    /\ out = <<>> /\ outB = <<>> /\ prefix = <<>>
    /\ hist = <<>> /\ msg = <<>> /\ recycled = FALSE
    /\ lastOp = "NewHash" /\ panicked = FALSE
    /\ NoStream /\ NoTwin /\ NoStep

PairWrite ==
    /\ mode = "pair" /\ nwrite < MaxWrites
    /\ \E p \in Chunks :
         /\ hs' = digestWrite(hs, p)
         /\ hsB' = digestWrite(hsB, p)
         /\ msg' = msg \o p
    /\ hist' = Append(hist, "Write")
    /\ out' = <<>> /\ outB' = <<>>
    /\ lastOp' = "Write"
    /\ UNCHANGED <<mode, size, sizeB, prefix, recycled, panicked, streamVars,
                 twinVars, stepVars>>

PairSum ==
    /\ mode = "pair" /\ nsum < MaxSums
    /\ LET r  == digestSum(hs, size, <<>>)
           rB == digestSum(hsB, sizeB, <<>>)
       IN  /\ hs' = r.live /\ out' = r.ret
           /\ hsB' = rB.live /\ outB' = rB.ret
    /\ hist' = Append(hist, "Sum")
    /\ lastOp' = "Sum"
    /\ UNCHANGED <<mode, size, sizeB, prefix, msg, recycled, panicked, streamVars,
                 twinVars, stepVars>>

PairNext == PairWrite \/ PairSum

PairSpec == NewPair /\ [][PairNext]_vars

(***************************************************************************)
(* Two streams made by two NewStream(key) calls with the same key.  Each   *)
(* NewStream declares its own state (var s state), so a call on one stream *)
(* reaches the state of that stream only.                                  *)
(***************************************************************************)
twinXORKeyStreamShared(st, other, dstv, v) ==
    LET r == streamXORKeyStream(st, dstv, v)
    IN  [st |-> r.st, dst |-> r.dst, other |-> r.st]

\* XORKeyStream on the stream holding st, while another stream holds other
twinXORKeyStream(st, other, dstv, v) ==
    LET r == streamXORKeyStream(st, dstv, v)
    IN  [st |-> r.st, dst |-> r.dst, other |-> other]

NewTwin ==
    /\ mode = "twin"
    /\ key \in Keys
    /\ cs = streamNew(key) /\ csB = streamNew(key)
    /\ src = <<>> /\ dst = <<>> /\ srcAll = <<>> /\ dstAll = <<>>
    /\ srcAllB = <<>> /\ dstAllB = <<>>
    /\ lastOp = "NewStream" /\ panicked = FALSE
    /\ NoHash /\ NoPair /\ NoStep

\* XORKeyStream(dst, v) on the first stream, len(dst) = len(v)
TwinXORKeyStream ==
    /\ mode = "twin"
    /\ \E v \in Srcs :
         /\ Len(srcAll) + Len(v) <= MaxStream
         /\ LET r == twinXORKeyStream(cs, csB, zeros(Len(v)), v)
            IN  /\ cs' = r.st /\ csB' = r.other
                /\ src' = v /\ dst' = r.dst
                /\ srcAll' = srcAll \o v
                /\ dstAll' = dstAll \o r.dst
    /\ lastOp' = "XORKeyStream"
    /\ UNCHANGED <<mode, key, panicked, srcAllB, dstAllB,
                   hashVars, pairVars, stepVars>>

\* XORKeyStream(dst, v) on the second stream
TwinXORKeyStreamB ==
    /\ mode = "twin"
    /\ \E v \in Srcs :
         /\ Len(srcAllB) + Len(v) <= MaxStream
         /\ LET r == twinXORKeyStream(csB, cs, zeros(Len(v)), v)
            IN  /\ csB' = r.st /\ cs' = r.other
                /\ src' = v /\ dst' = r.dst
                /\ srcAllB' = srcAllB \o v
                /\ dstAllB' = dstAllB \o r.dst
    /\ lastOp' = "XORKeyStreamB"
    /\ UNCHANGED <<mode, key, panicked, srcAll, dstAll,
                   hashVars, pairVars, stepVars>>

\* the second stream, not used yet, is given all the first one has written
TwinDecrypt ==
    /\ mode = "twin"
    /\ srcAllB = <<>> /\ dstAll # <<>>
    /\ LET r == twinXORKeyStream(csB, cs, zeros(Len(dstAll)), dstAll)
       IN  /\ csB' = r.st /\ cs' = r.other
           /\ src' = dstAll /\ dst' = r.dst
           /\ srcAllB' = dstAll
           /\ dstAllB' = r.dst
    /\ lastOp' = "Decrypt"
    /\ UNCHANGED <<mode, key, panicked, srcAll, dstAll,
                   hashVars, pairVars, stepVars>>

TwinNext == TwinXORKeyStream \/ TwinXORKeyStreamB \/ TwinDecrypt

TwinSpec == NewTwin /\ [][TwinNext]_vars

(***************************************************************************)
(* One program run call by call (mode "step").  ps is the Permutation      *)
(* State being worked on; stack holds the calls and statements still to    *)
(* run, innermost first, each [op, arg]; a step runs the first of them: a  *)
(* call of a method puts the method's body in its place, a statement       *)
(* changes ps.                                                             *)
(*   step     the op of the step just taken                                *)
(*   api      the public call in progress (or the last one finished)       *)
(*   live     during Sum, the state d.s points to (ps is Sum's copy s)     *)
(*   buf      the slice being filled: out of squeeze, dst of XORKeyStream  *)
(* History variables:                                                      *)
(*   outs     the values output() returned on this state object            *)
(*   nupd     the update calls of the whip in progress                     *)
(*   slog     the whip and crush calls of the shuffle in progress          *)
(*   sh0      the state the shuffle in progress started from               *)
(*   updSinceOut   the update calls since the last output()                *)
(*   nabs     the absorbNibble and absorbStop calls since the last shuffle *)
(*            finished, or since initialize                                *)
(*   nabsLive during Sum, nabs of the state d.s points to                  *)
(*   shufSinceAbs  the shuffles finished since the last of those calls     *)
(*   sq       of the last squeeze: a and w on entry, the shuffle and drip  *)
(*            calls made since                                             *)
(***************************************************************************)
I(op, arg) == [op |-> op, arg |-> arg]

\* the statements of the methods of state that change it in place
whipEndByOne(st) == [st EXCEPT !.w = (st.w + 1) % st.n]

whipEnd(st) == [st EXCEPT !.w = (st.w + 2) % st.n]

shuffleEnd(st) == [st EXCEPT !.a = 0]

absorbStopEndSwaps(st) ==
    [st EXCEPT !.s = Swap(st.s, st.a, st.n \div 2), !.a = (st.a + 1) % st.n]

absorbStopEnd(st) == [st EXCEPT !.a = (st.a + 1) % st.n]

absorbNibbleSwap(st, x) ==
    LET y == nibbleY(st.n, x)
    IN  [st EXCEPT !.s = Swap(st.s, st.a, y), !.a = (st.a + 1) % st.n]

\* the bodies of the methods of state, as the calls they make in order
whipCallsOnce(st) == <<I("update", st.n), I("whipEnd", 0)>>

whipCalls(st) == <<I("update", st.n * 2), I("whipEnd", 0)>>

shuffleCallsShort ==
    <<I("whip", 0), I("crush", 0), I("whip", 0), I("shuffleEnd", 0)>>

shuffleCalls ==
    <<I("whip", 0), I("crush", 0), I("whip", 0), I("crush", 0), I("whip", 0),
      I("shuffleEnd", 0)>>

absorbStopCalls(st) ==
    (IF st.a = st.n \div 2 THEN <<I("shuffle", 0)>> ELSE <<>>)
        \o <<I("absorbStopEnd", 0)>>

absorbNibbleCallsLate(st, x) ==
    (IF st.a > st.n \div 2 THEN <<I("shuffle", 0)>> ELSE <<>>)
        \o <<I("absorbNibbleSwap", x)>>

absorbNibbleCalls(st, x) ==
    (IF st.a = st.n \div 2 THEN <<I("shuffle", 0)>> ELSE <<>>)
        \o <<I("absorbNibbleSwap", x)>>

absorbValueCalls(st, b) ==
    LET d == st.n \div 16
    IN  <<I("absorbNibble", GoMod(b, d)), I("absorbNibble", GoDiv(b, d))>>

\* one turn of the loop of absorb
absorbCalls(m) ==
    IF m = <<>> THEN <<>>
    ELSE <<I("absorbValue", Head(m)), I("absorb", Tail(m))>>

dripCallsNoUpdate(st) ==
    (IF st.a > 0 THEN <<I("shuffle", 0)>> ELSE <<>>) \o <<I("output", 0)>>

dripCalls(st) ==
    (IF st.a > 0 THEN <<I("shuffle", 0)>> ELSE <<>>)
        \o <<I("update", 1), I("output", 0)>>

squeezeCallsNoShuffle(st, count) == <<I("squeezeLoop", count)>>

squeezeCalls(st, count) ==
    (IF st.a > 0 THEN <<I("shuffle", 0)>> ELSE <<>>)
        \o <<I("squeezeLoop", count)>>

\* one turn of the loop of squeeze: out[i] = s.drip()
squeezeLoopCalls(count) ==
    IF count <= 0 THEN <<>>
    ELSE <<I("drip", 0), I("squeezeStore", 0), I("squeezeLoop", count - 1)>>

keySetupCalls(k) == <<I("absorb", k), I("keySetupEnd", 0)>>

\* if s.a > 0 { s.shuffle() } of keySetup
keySetupEndCalls(st) == IF st.a > 0 THEN <<I("shuffle", 0)>> ELSE <<>>

\* the bodies of the public calls
newStreamCalls(k) == <<I("initialize", 0), I("keySetup", k)>>

\* one turn of the loop of XORKeyStream: dst[i] = v ^ byte(s.s.drip())
xorLoopCalls(v) ==
    IF v = <<>> THEN <<>>
    ELSE <<I("drip", 0), I("xorStore", Head(v)), I("xorLoop", Tail(v))>>

sumCalls(sz) ==
    <<I("sumCopy", 0), I("absorbStop", 0), I("absorb", <<sz>>),
      I("sumMake", sz), I("squeeze", sz), I("sumReturn", 0)>>

\* the programs run: a stream given two XORKeyStream calls, and a hash
\* written to and summed, before and after a Reset
streamProgram(k) ==
    <<I("NewStream", k), I("XORKeyStream", <<0, 255>>),
      I("XORKeyStream", <<90>>)>>

hashProgram(sz, p, q) ==
    <<I("NewHash", sz), I("Write", p), I("Sum", 0), I("Write", q),
      I("Sum", 0), I("Reset", 0), I("Write", <<200>>), I("Sum", 0)>>

\* the variables no step of a run changes
idleVars == <<mode, lastOp, hashVars, pairVars, streamVars, twinVars>>

\* the history variables of the shuffle and the squeeze in progress
shuffleHist == <<nupd, slog, sh0>>

outputHist == <<outs, updSinceOut>>

absorbHist == <<nabs, nabsLive, shufSinceAbs>>

Running(op) == mode = "step" /\ stack # <<>> /\ Head(stack).op = op

\* the first of stack is run: ps becomes st, calls take its place
Take(st, calls) ==
    /\ step' = Head(stack).op
    /\ ps' = st
    /\ stack' = calls \o Tail(stack)
    /\ UNCHANGED idleVars

StartStream ==
    /\ mode = "step"
    /\ key \in Keys /\ stack = streamProgram(key)
    /\ cs = initialize /\ src = <<>> /\ dst = <<>>
    /\ srcAll = <<>> /\ dstAll = <<>>
    /\ lastOp = "" /\ panicked = FALSE
    /\ NoHash /\ NoPair /\ NoTwin
    /\ ps = initialize /\ step = "" /\ api = ""
    /\ live = initialize /\ buf = <<>> /\ outs = <<>>
    /\ nupd = 0 /\ slog = <<>> /\ sh0 = initialize
    /\ updSinceOut = 0 /\ nabs = 0 /\ nabsLive = 0 /\ shufSinceAbs = 0
    /\ sq = [a0 |-> 0, w0 |-> 1, shuffles |-> 0, drips |-> 0]

StartHash ==
    /\ mode = "step"
    /\ size \in Sizes
    /\ \E p \in Chunks : \E q \in Chunks : stack = hashProgram(size, p, q)
    /\ hs = initialize /\ out = <<>> /\ prefix = <<>>
    /\ hist = <<>> /\ msg = <<>> /\ recycled = FALSE
    /\ lastOp = "" /\ panicked = FALSE
    /\ NoPair /\ NoStream /\ NoTwin
    /\ ps = initialize /\ step = "" /\ api = ""
    /\ live = initialize /\ buf = <<>> /\ outs = <<>>
    /\ nupd = 0 /\ slog = <<>> /\ sh0 = initialize
    /\ updSinceOut = 0 /\ nabs = 0 /\ nabsLive = 0 /\ shufSinceAbs = 0
    /\ sq = [a0 |-> 0, w0 |-> 1, shuffles |-> 0, drips |-> 0]

StepInit == StartStream \/ StartHash

\* the public calls
RunNewStream ==
    /\ Running("NewStream")
    /\ Take(ps, newStreamCalls(Head(stack).arg))
    /\ api' = "NewStream"
    /\ UNCHANGED <<live, buf, panicked, sq, shuffleHist, outputHist, absorbHist>>

RunNewHash ==
    /\ Running("NewHash")
    /\ Take(ps, <<I("initialize", 0)>>)
    /\ api' = "NewHash"
    /\ UNCHANGED <<live, buf, panicked, sq, shuffleHist, outputHist, absorbHist>>

RunReset ==
    /\ Running("Reset")
    /\ Take(ps, <<I("initialize", 0)>>)
    /\ api' = "Reset"
    /\ UNCHANGED <<live, buf, panicked, sq, shuffleHist, outputHist, absorbHist>>

RunWrite ==
    /\ Running("Write")
    /\ Take(ps, <<I("absorb", Head(stack).arg)>>)
    /\ api' = "Write"
    /\ UNCHANGED <<live, buf, panicked, sq, shuffleHist, outputHist, absorbHist>>

RunXORKeyStream ==
    /\ Running("XORKeyStream")
    /\ Take(ps, <<I("xorLoop", Head(stack).arg)>>)
    /\ api' = "XORKeyStream"
    /\ buf' = <<>>
    /\ UNCHANGED <<live, panicked, sq, shuffleHist, outputHist, absorbHist>>

RunXorLoop ==
    /\ Running("xorLoop")
    /\ Take(ps, xorLoopCalls(Head(stack).arg))
    /\ UNCHANGED <<api, live, buf, panicked, sq, shuffleHist, outputHist,
                   absorbHist>>

\* dst[i] = v ^ byte(the value drip returned)
RunXorStore ==
    /\ Running("xorStore")
    /\ Take(ps, <<>>)
    /\ buf' = Append(buf, Xor(Head(stack).arg, ToByte(ps.z)))
    /\ UNCHANGED <<api, live, panicked, sq, shuffleHist, outputHist, absorbHist>>

RunSum ==
    /\ Running("Sum")
    /\ Take(ps, sumCalls(size))
    /\ api' = "Sum"
    /\ UNCHANGED <<live, buf, panicked, sq, shuffleHist, outputHist, absorbHist>>

\* s := *d.s: Sum works on a copy of the registers; the array is shared
RunSumCopy ==
    /\ Running("sumCopy")
    /\ Take(ps, <<>>)
    /\ live' = ps /\ nabsLive' = nabs
    /\ outs' = <<>> /\ updSinceOut' = 0
    /\ UNCHANGED <<api, buf, panicked, sq, shuffleHist, nabs, shufSinceAbs>>

\* out := make([]int, d.size): panics when d.size < 0
RunSumMake ==
    /\ Running("sumMake")
    /\ IF Head(stack).arg < 0
       THEN /\ step' = "sumMake" /\ stack' = <<>>
            /\ ps' = [live EXCEPT !.s = ps.s]
            /\ panicked' = TRUE
            /\ UNCHANGED idleVars
            /\ nabs' = nabsLive
       ELSE Take(ps, <<>>) /\ UNCHANGED <<panicked, nabs>>
    /\ buf' = <<>>
    /\ UNCHANGED <<api, live, sq, shuffleHist, outputHist, nabsLive,
                   shufSinceAbs>>

\* Sum returns: d.s holds its registers of before and the array as left
RunSumReturn ==
    /\ Running("sumReturn")
    /\ Take([live EXCEPT !.s = ps.s], <<>>)
    /\ nabs' = nabsLive
    /\ UNCHANGED <<api, live, buf, panicked, sq, shuffleHist, outputHist,
                   nabsLive, shufSinceAbs>>

\* the methods of state
RunInitialize ==
    /\ Running("initialize")
    /\ Take(initialize, <<>>)
    /\ outs' = <<>> /\ updSinceOut' = 0
    /\ nabs' = 0 /\ shufSinceAbs' = 0 /\ UNCHANGED nabsLive
    /\ UNCHANGED <<api, live, buf, panicked, sq, shuffleHist>>

RunKeySetup ==
    /\ Running("keySetup")
    /\ Take(ps, keySetupCalls(Head(stack).arg))
    /\ UNCHANGED <<api, live, buf, panicked, sq, shuffleHist, outputHist,
                   absorbHist>>

RunKeySetupEnd ==
    /\ Running("keySetupEnd")
    /\ Take(ps, keySetupEndCalls(ps))
    /\ UNCHANGED <<api, live, buf, panicked, sq, shuffleHist, outputHist,
                   absorbHist>>

RunAbsorb ==
    /\ Running("absorb")
    /\ Take(ps, absorbCalls(Head(stack).arg))
    /\ UNCHANGED <<api, live, buf, panicked, sq, shuffleHist, outputHist,
                   absorbHist>>

RunAbsorbValue ==
    /\ Running("absorbValue")
    /\ Take(ps, absorbValueCalls(ps, Head(stack).arg))
    /\ UNCHANGED <<api, live, buf, panicked, sq, shuffleHist, outputHist,
                   absorbHist>>

RunAbsorbNibble ==
    /\ Running("absorbNibble")
    /\ Take(ps, absorbNibbleCalls(ps, Head(stack).arg))
    /\ UNCHANGED <<api, live, buf, panicked, sq, shuffleHist, outputHist,
                   absorbHist>>

RunAbsorbNibbleSwap ==
    /\ Running("absorbNibbleSwap")
    /\ Take(absorbNibbleSwap(ps, Head(stack).arg), <<>>)
    /\ nabs' = nabs + 1 /\ shufSinceAbs' = 0 /\ UNCHANGED nabsLive
    /\ UNCHANGED <<api, live, buf, panicked, sq, shuffleHist, outputHist>>

RunAbsorbStop ==
    /\ Running("absorbStop")
    /\ Take(ps, absorbStopCalls(ps))
    /\ UNCHANGED <<api, live, buf, panicked, sq, shuffleHist, outputHist,
                   absorbHist>>

RunAbsorbStopEnd ==
    /\ Running("absorbStopEnd")
    /\ Take(absorbStopEnd(ps), <<>>)
    /\ nabs' = nabs + 1 /\ shufSinceAbs' = 0 /\ UNCHANGED nabsLive
    /\ UNCHANGED <<api, live, buf, panicked, sq, shuffleHist, outputHist>>

RunShuffle ==
    /\ Running("shuffle")
    /\ Take(ps, shuffleCalls)
    /\ slog' = <<>> /\ sh0' = ps
    /\ sq' = [sq EXCEPT !.shuffles = @ + 1]
    /\ UNCHANGED <<api, live, buf, panicked, nupd, outputHist, absorbHist>>

RunShuffleEnd ==
    /\ Running("shuffleEnd")
    /\ Take(shuffleEnd(ps), <<>>)
    /\ shufSinceAbs' = shufSinceAbs + 1 /\ nabs' = 0 /\ UNCHANGED nabsLive
    /\ UNCHANGED <<api, live, buf, panicked, sq, shuffleHist, outputHist>>

RunWhip ==
    /\ Running("whip")
    /\ Take(ps, whipCalls(ps))
    /\ slog' = Append(slog, "whip") /\ nupd' = 0
    /\ UNCHANGED <<api, live, buf, panicked, sq, sh0, outputHist, absorbHist>>

RunWhipEnd ==
    /\ Running("whipEnd")
    /\ Take(whipEnd(ps), <<>>)
    /\ UNCHANGED <<api, live, buf, panicked, sq, shuffleHist, outputHist,
                   absorbHist>>

RunCrush ==
    /\ Running("crush")
    /\ Take(crush(ps), <<>>)
    /\ slog' = Append(slog, "crush")
    /\ UNCHANGED <<api, live, buf, panicked, sq, nupd, sh0, outputHist,
                   absorbHist>>

\* one call of update, of the arg that are left to make
RunUpdate ==
    /\ Running("update")
    /\ Take(update(ps),
            IF Head(stack).arg > 1
            THEN <<I("update", Head(stack).arg - 1)>> ELSE <<>>)
    /\ nupd' = nupd + 1
    /\ updSinceOut' = updSinceOut + 1
    /\ UNCHANGED <<api, live, buf, panicked, sq, slog, sh0, outs, absorbHist>>

RunOutput ==
    /\ Running("output")
    /\ Take(output(ps), <<>>)
    /\ outs' = Append(outs, output(ps).z)
    /\ updSinceOut' = 0
    /\ UNCHANGED <<api, live, buf, panicked, sq, shuffleHist, absorbHist>>

RunDrip ==
    /\ Running("drip")
    /\ Take(ps, dripCalls(ps))
    /\ sq' = [sq EXCEPT !.drips = @ + 1]
    /\ UNCHANGED <<api, live, buf, panicked, shuffleHist, outputHist,
                   absorbHist>>

RunSqueeze ==
    /\ Running("squeeze")
    /\ Take(ps, squeezeCalls(ps, Head(stack).arg))
    /\ sq' = [a0 |-> ps.a, w0 |-> ps.w, shuffles |-> 0, drips |-> 0]
    /\ UNCHANGED <<api, live, buf, panicked, shuffleHist, outputHist,
                   absorbHist>>

RunSqueezeLoop ==
    /\ Running("squeezeLoop")
    /\ Take(ps, squeezeLoopCalls(Head(stack).arg))
    /\ UNCHANGED <<api, live, buf, panicked, sq, shuffleHist, outputHist,
                   absorbHist>>

\* out[i] = the value drip returned
RunSqueezeStore ==
    /\ Running("squeezeStore")
    /\ Take(ps, <<>>)
    /\ buf' = Append(buf, ps.z)
    /\ UNCHANGED <<api, live, panicked, sq, shuffleHist, outputHist, absorbHist>>

StepNext ==
    \/ RunNewStream \/ RunNewHash \/ RunReset \/ RunWrite \/ RunXORKeyStream
    \/ RunXorLoop \/ RunXorStore \/ RunSum \/ RunSumCopy \/ RunSumMake
    \/ RunSumReturn \/ RunInitialize \/ RunKeySetup \/ RunKeySetupEnd
    \/ RunAbsorb \/ RunAbsorbValue \/ RunAbsorbNibble \/ RunAbsorbNibbleSwap
    \/ RunAbsorbStop \/ RunAbsorbStopEnd \/ RunShuffle \/ RunShuffleEnd
    \/ RunWhip \/ RunWhipEnd \/ RunCrush \/ RunUpdate \/ RunOutput \/ RunDrip
    \/ RunSqueeze \/ RunSqueezeLoop \/ RunSqueezeStore

StepSpec == StepInit /\ [][StepNext]_vars

(***************************************************************************)
(* What the claims compare with.                                           *)
(***************************************************************************)
\* what Sum(b) returns on a brand-new hash of size sz given Write(m)
freshSum(sz, m, b) == digestSum(digestWrite(initialize, m), sz, b).ret

\* the registers a, i, j, k, w, z of a state
registers(st) == <<st.a, st.i, st.j, st.k, st.w, st.z>>

\* s holds each value of 0..n-1 exactly once
IsPermutation(s, n) == Len(s) = n /\ {s[x] : x \in 1..Len(s)} = 0..(n - 1)

(***************************************************************************)
(* C1: Sum leaves the live accumulator's Permutation State untouched: the  *)
(* array s and the registers a, i, j, k, w, z are the same after the call  *)
(* as before it.                                                           *)
(***************************************************************************)
C1_SumLeavesStateUntouched ==
    [][(lastOp' = "Sum" /\ ~panicked')
          => (hs'.s = hs.s /\ registers(hs') = registers(hs))]_vars

(***************************************************************************)
(* C2: two Sum(nil) calls in succession, with no Write or Reset between,   *)
(* return identical byte sequences.                                        *)
(***************************************************************************)
C2_SumTwiceSame ==
    [][(/\ lastOp = "Sum" /\ lastOp' = "Sum"
        /\ prefix = <<>> /\ prefix' = <<>>
        /\ ~panicked') => out' = out]_vars

(***************************************************************************)
(* C3: Write(A); Sum(); Write(B); Sum() yields for the second Sum the      *)
(* digest a fresh accumulator of the same size returns for Write(A || B);  *)
(* Sum().                                                                  *)
(***************************************************************************)
C3_WriteAfterSum ==
    (/\ mode = "hash" /\ ~panicked
     /\ hist = <<"Write", "Sum", "Write", "Sum">>)
        => out = freshSum(size, msg, prefix)

(***************************************************************************)
(* C4: writing a message in chunks leaves the accumulator in the state     *)
(* (array and registers) a single Write of the whole message leaves it     *)
(* in, and the Sum that follows returns the same digest.                   *)
(***************************************************************************)
C4_HashChunkIndependence ==
    /\ (mode = "hash" /\ nsum = 0) => hs = digestWrite(initialize, msg)
    /\ (mode = "hash" /\ nsum = 1 /\ lastOp = "Sum" /\ ~panicked)
          => out = freshSum(size, msg, prefix)

C4_Witness ==
    /\ mode = "hash" /\ size = 32 /\ lastOp = "Sum" /\ prefix = <<>>
    /\ nsum = 1 /\ nwrite = 2 /\ Len(msg) > LongLen
    /\ Len(out) = 32

(***************************************************************************)
(* C5: on one stream, XORKeyStream over the concatenation of the chunks    *)
(* in one call writes the bytes, and leaves the Permutation State, that    *)
(* the calls chunk by chunk wrote and left.                                *)
(***************************************************************************)
C5_CipherChunkIndependence ==
    (mode = "stream" /\ ~panicked) =>
        LET r == streamXORKeyStream(streamNew(key), zeros(Len(srcAll)), srcAll)
        IN  r.dst = dstAll /\ r.st = cs

C5_Witness ==
    /\ mode = "stream" /\ ~panicked /\ lastOp = "XORKeyStream"
    /\ Len(src) > 0 /\ Len(srcAll) > Len(src)
    /\ Len(dstAll) = Len(srcAll)

(***************************************************************************)
(* C6: Reset restores the identity permutation, i = j = k = z = a = 0 and  *)
(* w = 1, and leaves size unchanged; after earlier Write and Sum calls,    *)
(* Reset(); Write(M); Sum() returns what a brand-new accumulator of the    *)
(* same size returns for Write(M); Sum().                                  *)
(***************************************************************************)
C6_ResetEquivalence ==
    [][/\ lastOp' = "Reset" =>
            /\ hs'.s = identityRange(0, 256) /\ hs'.n = 256
            /\ registers(hs') = <<0, 0, 0, 0, 1, 0>>
            /\ size' = size
       /\ (recycled' /\ lastOp' = "Sum" /\ nsum' = 1 /\ ~panicked')
            => out' = freshSum(size', msg', prefix')]_vars

C6_Witness ==
    /\ mode = "hash" /\ recycled /\ size = 32 /\ ~panicked
    /\ hist = <<"Write", "Sum">> /\ Len(out) = Len(prefix) + 32

(***************************************************************************)
(* C7: at every point between public operations the array s holds each     *)
(* value of 0..n-1 exactly once.                                           *)
(***************************************************************************)
C7_PermutationInvariant ==
    /\ IsPermutation(hs.s, hs.n)
    /\ IsPermutation(cs.s, cs.n)

C7_Witness ==
    /\ mode = "hash" /\ lastOp = "Sum" /\ nsum = 2 /\ nwrite = 2
    /\ Len(msg) > LongLen /\ hs.s # initialize.s

(***************************************************************************)
(* C8: NewHash(size) with size < 0 is rejected by the constructor: no      *)
(* accumulator of negative size exists on which Write or Sum is called.    *)
(***************************************************************************)
C8_NegativeSizeRejected ==
    (mode = "hash" /\ size < 0) => lastOp \notin {"Write", "Sum"}

(***************************************************************************)
(* C10: for size >= 0, Sum(b) returns b unchanged followed by exactly      *)
(* size digest bytes; with size = 0 it returns b.                          *)
(***************************************************************************)
C10_SumAppendsSizeBytes ==
    (mode = "hash" /\ lastOp = "Sum" /\ size >= 0) =>
        /\ Len(out) = Len(prefix) + size
        /\ SubSeq(out, 1, Len(prefix)) = prefix
        /\ \A x \in (Len(prefix) + 1)..Len(out) : out[x] \in 0..255
        /\ size = 0 => out = prefix

C10_Witness ==
    /\ mode = "hash" /\ lastOp = "Sum" /\ size = 32
    /\ prefix = <<7, 9>> /\ Len(out) = 34 /\ nwrite > 0

(***************************************************************************)
(* C9: two accumulators whose sizes differ by exactly 256 absorb the same  *)
(* domain-separation value in Sum: the two absorbNibble swaps touch the    *)
(* same array positions, and with identical messages the digests agree on  *)
(* the shared prefix.  sumSwaps gives the positions <<a, y, a, y>> of the   *)
(* two swaps Sum makes for size sz from the state st.                      *)
(***************************************************************************)
sumSwaps(st, sz) ==
    LET c0 == absorbStop(st)
        d  == c0.n \div 16
        c1 == absorbNibble(c0, GoMod(sz, d))
        c2 == absorbNibble(c1, GoDiv(sz, d))
    IN  <<(c1.a + c1.n - 1) % c1.n, nibbleY(c1.n, GoMod(sz, d)),
          (c2.a + c2.n - 1) % c2.n, nibbleY(c2.n, GoDiv(sz, d))>>

C9_AliasAt256 ==
    (mode = "pair" /\ sizeB = size + 256 /\ lastOp = "Sum" /\ nsum = 1) =>
        /\ sumSwaps(hs, size) = sumSwaps(hsB, sizeB)
        /\ out = SubSeq(outB, 1, Len(out))

\* C9 as amended: the sizes that alias are those that differ by 4096, and
\* the digests agree on the first Sum since construction.
C9_AliasAt4096 ==
    (mode = "pair" /\ sizeB = size + 4096) =>
        /\ sumSwaps(hs, size) = sumSwaps(hsB, sizeB)
        /\ (lastOp = "Sum" /\ nsum = 1) =>
              /\ Len(out) = size /\ Len(outB) = sizeB
              /\ out = SubSeq(outB, 1, size)

C9_Witness ==
    /\ mode = "pair" /\ size = 3 /\ sizeB = 4099
    /\ lastOp = "Sum" /\ nsum = 1 /\ nwrite = 2
    /\ Len(out) = 3 /\ Len(outB) = 4099

(***************************************************************************)
(* C11: two streams constructed independently from the same key give the   *)
(* same keystream over any equal number of bytes, whatever was run on the  *)
(* other stream in between; after equally many bytes they hold the same    *)
(* Permutation State.  keystream gives the keystream bytes a stream used:  *)
(* each byte written xor the byte it was given.                            *)
(***************************************************************************)
keystream(given, written) == [x \in 1..Len(given) |-> Xor(given[x], written[x])]

C11_CipherDeterminism ==
    mode = "twin" =>
        LET m == IF Len(srcAll) < Len(srcAllB) THEN Len(srcAll)
                 ELSE Len(srcAllB)
        IN  /\ SubSeq(keystream(srcAll, dstAll), 1, m)
                 = SubSeq(keystream(srcAllB, dstAllB), 1, m)
            /\ Len(srcAll) = Len(srcAllB) => cs = csB

C11_Witness ==
    /\ mode = "twin" /\ key = <<1, 2, 3>> /\ lastOp = "XORKeyStreamB"
    /\ Len(srcAll) = 3 /\ Len(srcAllB) = 3 /\ srcAll # srcAllB
    /\ Len(src) = 1

(***************************************************************************)
(* C12: XORKeyStream over the ciphertext of P, on a fresh stream made from *)
(* the key P was encrypted under, writes P.                                *)
(***************************************************************************)
C12_XORInvolution ==
    (mode = "twin" /\ lastOp = "Decrypt") => dstAllB = srcAll

C12_Witness ==
    /\ mode = "twin" /\ lastOp = "Decrypt" /\ key = <<171>>
    /\ srcAll = <<90, 0, 255>> /\ dstAll # srcAll /\ dstAllB = srcAll

(***************************************************************************)
(* C13: XORKeyStream with len(dst) < len(src) is rejected at the call: it  *)
(* ends in an error without having written a byte of dst and without       *)
(* having advanced the Permutation State.                                  *)
(***************************************************************************)
C13_ShortDstFailsFast ==
    [][(lastOp' = "XORKeyStream" /\ Len(dst') < Len(src'))
          => (/\ panicked'
              /\ cs' = cs
              /\ dst' = zeros(Len(dst')))]_vars

(***************************************************************************)
(* C14: key setup ends with a = 0 for every key length, so a is 0 whenever *)
(* a keystream byte is released: a non-empty key ends with a shuffle, the  *)
(* empty key leaves the identity permutation with i = j = k = z = a = 0    *)
(* and w = 1.                                                              *)
(***************************************************************************)
C14_KeySetupEndsAbsorbing ==
    mode = "stream" =>
        /\ cs.a = 0
        /\ lastOp = "NewStream" =>
              IF key = <<>>
              THEN /\ cs.s = identityRange(0, 256)
                   /\ registers(cs) = <<0, 0, 0, 0, 1, 0>>
              ELSE /\ cs = shuffle(absorb(initialize, key))
                   /\ cs.s # identityRange(0, 256)

C14_Witness ==
    /\ mode = "stream" /\ key = LongChunk /\ ~panicked
    /\ lastOp = "XORKeyStream" /\ Len(dstAll) = 3 /\ cs.a = 0

(***************************************************************************)
(* C15: gcd(w, n) = 1 in every reachable state: w is 1 after initialize    *)
(* and changes only at the end of whip, by w = (w + 2) mod n.  (When Sum   *)
(* ends, ps stops being Sum's copy and is again the state d.s points to,   *)
(* with the w of that state.)  The end of whip keeps w coprime to n from   *)
(* every odd w, the wrap from n - 1 to 1 included.                         *)
(***************************************************************************)
RECURSIVE Gcd(_, _)
Gcd(x, y) == IF y = 0 THEN x ELSE Gcd(y, x % y)

C15_WCoprime ==
    /\ [](Gcd(ps.w, ps.n) = 1 /\ Gcd(live.w, live.n) = 1)
    /\ [][/\ step' = "initialize" => ps'.w = 1
          /\ step' = "whipEnd" =>
                \A x \in 0..(ps.n \div 2 - 1) :
                    Gcd(whipEnd([ps EXCEPT !.w = 2 * x + 1]).w, ps.n) = 1
          /\ ps'.w # ps.w =>
                \/ step' = "whipEnd" /\ ps'.w = (ps.w + 2) % ps.n
                \/ step' = "initialize"
                \/ step' \in {"sumReturn", "sumMake"} /\ ps'.w = live.w]_vars

C15_Witness ==
    /\ mode = "step" /\ api = "Sum" /\ step = "whipEnd"
    /\ live.w = 7 /\ ps.w = 13

(***************************************************************************)
(* C16: absorbNibble and absorbStop run shuffle first exactly when         *)
(* a = n/2 on entry; so 0 <= a <= n/2 always, and at most n/2 units are    *)
(* absorbed between two consecutive shuffles.                              *)
(***************************************************************************)
C16_ShuffleAtHalf ==
    [][/\ step' \in {"absorbNibble", "absorbStop"} =>
             (Head(stack').op = "shuffle" <=> ps.a = ps.n \div 2)
       /\ ps'.a \in 0..(ps'.n \div 2)
       /\ nabs' \in 0..(ps'.n \div 2)]_vars

C16_Witness ==
    /\ mode = "step" /\ api = "Write" /\ step = "absorbNibble"
    /\ Head(stack).op = "shuffle" /\ ps.a = 128 /\ nabs = 128

(***************************************************************************)
(* C17: absorbStop called with a # n/2 changes only the counter a, which   *)
(* becomes a + 1: s, i, j, k, w, z are unchanged; absorbStop touches the   *)
(* array only through the shuffle it runs when a = n/2.                    *)
(***************************************************************************)
C17_AbsorbStopFrame ==
    [][/\ (step' = "absorbStop" /\ ps.a # ps.n \div 2) =>
             /\ Head(stack').op = "absorbStopEnd"
             /\ absorbStop(ps) = [ps EXCEPT !.a = ps.a + 1]
       /\ step' = "absorbStop" => ps' = ps
       /\ step' = "absorbStopEnd" =>
             /\ step \in {"absorbStop", "shuffleEnd"}
             /\ ps'.s = ps.s
             /\ registers(ps') = <<ps.a + 1, ps.i, ps.j, ps.k, ps.w, ps.z>>]_vars

C17_Witness ==
    /\ mode = "step" /\ api = "Sum" /\ step = "absorbStopEnd"
    /\ ps.a = 3 /\ live.a = 2 /\ ps.s # initialize.s

(***************************************************************************)
(* C18: every shuffle runs whip, crush, whip, crush, whip in that order,   *)
(* each whip being exactly 2n update calls followed by one                 *)
(* w = (w + 2) mod n, and ends with a = 0.                                 *)
(***************************************************************************)
C18_ShuffleOrder ==
    [][/\ step' = "whipEnd" =>
             /\ nupd = 2 * ps.n /\ step = "update"
             /\ ps' = [ps EXCEPT !.w = (ps.w + 2) % ps.n]
       /\ step = "whip" => (step' = "update" /\ nupd' = 1)
       /\ (step = "update" /\ step' = "update") =>
             (nupd' = nupd + 1 /\ ps'.w = ps.w)
       /\ step' = "shuffleEnd" =>
             /\ slog = <<"whip", "crush", "whip", "crush", "whip">>
             /\ step = "whipEnd"
             /\ ps'.a = 0
             /\ ps'.w = (sh0.w + 6) % ps.n
             /\ ps' = shuffle(sh0)]_vars

C18_Witness ==
    /\ mode = "step" /\ api = "Write" /\ step = "shuffleEnd"
    /\ sh0.a = 128 /\ ps.a = 0 /\ ps.w = 7

(***************************************************************************)
(* C19: each call of output() happens in a state with a = 0 and nothing    *)
(* absorbed since the last shuffle, is preceded by exactly one update()    *)
(* since the previous output() on that state, and in Sum at least one      *)
(* shuffle has run between the last absorption and the digest byte.        *)
(***************************************************************************)
C19_OutputAfterShuffle ==
    [][step' = "output" =>
          /\ ps.a = 0 /\ nabs = 0
          /\ step = "update"
          /\ outs # <<>> => updSinceOut = 1
          /\ api = "Sum" => shufSinceAbs >= 1]_vars

C19_Witness ==
    /\ mode = "step" /\ api = "Sum" /\ step = "output"
    /\ Len(outs) = 32 /\ shufSinceAbs = 1 /\ ps.a = 0

(***************************************************************************)
(* C20: squeeze(count) runs at most one shuffle, before the first drip and *)
(* only if a > 0 on entry, also when count = 0; no drip of it runs a       *)
(* shuffle, so w advances by at most 6 mod n during one squeeze.           *)
(* XORKeyStream on a stream never runs a shuffle and never changes a or w. *)
(***************************************************************************)
InSqueeze == \E x \in DOMAIN stack : stack[x].op = "squeezeLoop"

C20_SqueezeShufflesOnce ==
    [][/\ (InSqueeze /\ step' = "shuffle") =>
             (step = "squeeze" /\ sq.drips = 0 /\ sq.shuffles = 0 /\ sq.a0 > 0)
       /\ InSqueeze =>
             ps'.w \in {(sq.w0 + 2 * x) % ps.n : x \in 0..3}
       /\ (step' = "squeezeLoop" /\ ~InSqueeze') =>
             /\ sq.shuffles = (IF sq.a0 > 0 THEN 1 ELSE 0)
             /\ sq.drips = (IF size > 0 THEN size ELSE 0)
             /\ ps'.w = (sq.w0 + 6 * sq.shuffles) % ps.n
       /\ (api = "XORKeyStream" /\ api' = "XORKeyStream") =>
             (step' # "shuffle" /\ ps'.a = ps.a /\ ps'.w = ps.w)]_vars

C20_Witness ==
    /\ mode = "step" /\ api = "Sum" /\ size = 0
    /\ step = "squeezeLoop" /\ ~InSqueeze
    /\ sq.shuffles = 1 /\ sq.drips = 0 /\ ps.w = (sq.w0 + 6) % 256

=============================================================================
